---- MODULE Spec2Model ----
(***************************************************************************)
(* A model of main.py of web-search-duckduckgo: the tools search_and_fetch *)
(* and fetch, the unregistered search, and the helpers search_duckduckgo   *)
(* and fetch_url.                                                          *)
(*                                                                         *)
(* A Python str is a sequence of one-character strings when the code looks *)
(* inside it (query, page texts, urls), and a sequence of string pieces    *)
(* when the code only builds it (the messages).  A dict is a record.       *)
(***************************************************************************)
EXTENDS Integers, Sequences, FiniteSets, TLC

VARIABLES
    pc,         \* position of the tool call: idle, searching, gathering, fetching, done, raised
    query,      \* argument query of search_and_fetch / search
    limit,      \* argument limit of search_and_fetch / search
    effLimit,   \* the local limit after min(limit, 10); 0 before
    searchReqs, \* search requests issued so far (client.get in search_duckduckgo)
    fetchReqs,  \* urls of the page requests issued so far (client.get in fetch_url)
    results,    \* the local results of search_and_fetch / search
    tasks,      \* the fetch_url tasks handed to asyncio.gather, by position
    url,        \* argument url of the fetch tool
    response,   \* what the request of search_duckduckgo, or of the fetch tool, ended in
    extracted,  \* the local text of fetch_url after get_text()
    cleaned,    \* the local text of fetch_url after the clean-up
    ret,        \* the value the tool call returned
    exc         \* the exception the tool call raised, "none" if none

vars == <<pc, query, limit, effLimit, searchReqs, fetchReqs, results, tasks,
          url, response, extracted, cleaned, ret, exc>>

-----------------------------------------------------------------------------
(* Bounds of the model *)

\* longest page text enumerated character by character
MaxLen == 5
\* longest results page whose fragments are enumerated kind by kind
MaxPageLen == 3
\* longest results page
MaxFrags == 12
\* largest limit a caller passes
MaxLimitArg == 12
\* largest batch of page fetches whose outcomes are enumerated freely
FreeBatch == 3

-----------------------------------------------------------------------------
(* Python str helpers *)

Min(S) == CHOOSE x \in S : \A y \in S : x <= y

\* the characters of the page texts
Alphabet == {"a", " ", "\n", "\t"}
\* characters str.strip() removes
Whitespace == {" ", "\n", "\t"}
\* characters str.splitlines() breaks at
LineBreaks == {"\n"}

\* str.strip(): from the first to the last character that is no whitespace
Strip(s) ==
    LET Kept(i) == s[i] \notin Whitespace
        first == CHOOSE i \in 1..Len(s) :
                    Kept(i) /\ \A j \in 1..(i - 1) : ~Kept(j)
        last  == CHOOSE i \in 1..Len(s) :
                    Kept(i) /\ \A j \in (i + 1)..Len(s) : ~Kept(j)
    IN  IF \A i \in 1..Len(s) : ~Kept(i) THEN <<>> ELSE SubSeq(s, first, last)

\* str.splitlines(): no line for an empty string, none after a final break
RECURSIVE SplitLines(_)
SplitLines(s) ==
    IF s = <<>> THEN <<>>
    ELSE LET brk == {i \in 1..Len(s) : s[i] \in LineBreaks}
         IN  IF brk = {} THEN <<s>>
             ELSE <<SubSeq(s, 1, Min(brk) - 1)>>
                    \o SplitLines(SubSeq(s, Min(brk) + 1, Len(s)))

\* str.split("  "): cut at each two-space separator, left to right
RECURSIVE SplitTwoSpaces(_)
SplitTwoSpaces(s) ==
    LET sep == {i \in 1..(Len(s) - 1) : s[i] = " " /\ s[i + 1] = " "}
    IN  IF sep = {} THEN <<s>>
        ELSE <<SubSeq(s, 1, Min(sep) - 1)>>
               \o SplitTwoSpaces(SubSeq(s, Min(sep) + 2, Len(s)))

\* ' '.join(chunks)
RECURSIVE JoinSpace(_)
JoinSpace(chunks) ==
    IF chunks = <<>> THEN <<>>
    ELSE IF Len(chunks) = 1 THEN chunks[1]
    ELSE chunks[1] \o <<" ">> \o JoinSpace(Tail(chunks))

\* str.startswith(prefix)
StartsWith(s, prefix) ==
    Len(s) >= Len(prefix) /\ SubSeq(s, 1, Len(prefix)) = prefix

\* str(n) of a natural number
RECURSIVE Digits(_)
Digits(n) ==
    LET d == <<"0", "1", "2", "3", "4", "5", "6", "7", "8", "9">>[(n % 10) + 1]
    IN  IF n < 10 THEN <<d>> ELSE Digits(n \div 10) \o <<d>>

RECURSIVE Flatten(_)
Flatten(ss) == IF ss = <<>> THEN <<>> ELSE ss[1] \o Flatten(Tail(ss))

\* the non-empty strings of ss, in order
RECURSIVE NonEmpty(_)
NonEmpty(ss) ==
    IF ss = <<>> THEN <<>>
    ELSE (IF ss[1] # <<>> THEN <<ss[1]>> ELSE <<>>) \o NonEmpty(Tail(ss))

-----------------------------------------------------------------------------
(* fetch_url *)

\* the length fetch_url cuts the text at
MaxChars == 10000

TruncationMarker ==
    <<".", ".", ".", " ", "[", "c", "o", "n", "t", "e", "n", "t", " ",
      "t", "r", "u", "n", "c", "a", "t", "e", "d", "]">>

\* CleanText without the strip of each chunk
CleanTextChunksNotStripped(text) ==
    LET split  == SplitLines(text)
        lines  == [i \in 1..Len(split) |-> Strip(split[i])]
        pieces == Flatten([i \in 1..Len(lines) |-> SplitTwoSpaces(lines[i])])
    IN  JoinSpace(NonEmpty(pieces))

\* the clean-up of the extracted text
CleanText(text) ==
    LET split  == SplitLines(text)
        lines  == [i \in 1..Len(split) |-> Strip(split[i])]
        pieces == Flatten([i \in 1..Len(lines) |-> SplitTwoSpaces(lines[i])])
        chunks == [i \in 1..Len(pieces) |-> Strip(pieces[i])]
    IN  JoinSpace(NonEmpty(chunks))

\* Truncate with >= for >
TruncateFromMaxChars(text) ==
    IF Len(text) >= MaxChars
    THEN SubSeq(text, 1, MaxChars) \o TruncationMarker
    ELSE text

\* the length limit on the cleaned text
Truncate(text) ==
    IF Len(text) > MaxChars
    THEN SubSeq(text, 1, MaxChars) \o TruncationMarker
    ELSE text

Https == <<"h", "t", "t", "p", "s", ":", "/", "/">>
Http  == <<"h", "t", "t", "p", ":", "/", "/">>

\* the url fetch_url requests: https:// is put before a url without a scheme
RequestUrl(u) ==
    IF StartsWith(u, Http) \/ StartsWith(u, Https) THEN u ELSE Https \o u

\* the classes of the exceptions of the model, each with its base class
BaseClass ==
    [ReadTimeout      |-> "TimeoutException",
     ConnectTimeout   |-> "TimeoutException",
     TimeoutException |-> "TransportError",
     ConnectError     |-> "TransportError",
     TransportError   |-> "Exception",
     HTTPStatusError  |-> "Exception",
     KeyError         |-> "Exception",
     ValueError       |-> "Exception",
     Exception        |-> "BaseException",
     BaseException    |-> "BaseException"]

\* isinstance(e, cls) for an exception e of class c
RECURSIVE IsInstance(_, _)
IsInstance(c, cls) ==
    \/ c = cls
    \/ c # "BaseException" /\ IsInstance(BaseClass[c], cls)

\* what a request ends in: an exception of client.get, or a response with its
\* status line and the text get_text() finds in the page
Failure(cls) == [cls |-> cls, status |-> 0, reason |-> "", body |-> <<>>]
Response(status, reason, body) ==
    [cls |-> "none", status |-> status, reason |-> reason, body |-> body]

\* response.raise_for_status() raises for every status that is not 2xx
IsSuccess(status) == status >= 200 /\ status <= 299

\* the exception raised in the try block of fetch_url, "none" if none
RaisedInFetch(o) ==
    IF o.cls # "none" THEN o.cls
    ELSE IF ~IsSuccess(o.status) THEN "HTTPStatusError"
    ELSE "none"

TimeoutText == <<"Error: Request timed out while fetching the webpage">>
StatusText(o) == <<"Error: HTTP ">> \o Digits(o.status) \o <<" - ", o.reason>>
FailedText(cls) == <<"Error: Failed to fetch webpage - ", cls>>

\* FetchHandlers without the clause for httpx.HTTPStatusError
FetchHandlersNoStatusClause(cls, o) ==
    IF IsInstance(cls, "TimeoutException")
    THEN [raised |-> "none", val |-> TimeoutText]
    ELSE IF IsInstance(cls, "Exception")
    THEN [raised |-> "none", val |-> FailedText(cls)]
    ELSE [raised |-> cls, val |-> <<>>]

\* the except clauses of fetch_url, in their order; an exception none of them
\* catches leaves fetch_url
FetchHandlers(cls, o) ==
    IF IsInstance(cls, "TimeoutException")
    THEN [raised |-> "none", val |-> TimeoutText]
    ELSE IF IsInstance(cls, "HTTPStatusError")
    THEN [raised |-> "none", val |-> StatusText(o)]
    ELSE IF IsInstance(cls, "Exception")
    THEN [raised |-> "none", val |-> FailedText(cls)]
    ELSE [raised |-> cls, val |-> <<>>]

\* fetch_url from the end of the request on: the value returned, or the
\* exception raised
FetchUrl(o) ==
    IF RaisedInFetch(o) = "none"
    THEN [raised |-> "none", val |-> Truncate(CleanText(o.body))]
    ELSE FetchHandlers(RaisedInFetch(o), o)

-----------------------------------------------------------------------------
(* The web, as the requests of the model see it *)

\* every text of at most n characters
Texts(n) == UNION {[1..k -> Alphabet] : k \in 0..n}

\* a page text of n characters: words of "a" and "b", a single space now and then
LongBody(n) ==
    [i \in 1..n |-> IF i % 1000 = 500 THEN " " ELSE IF i % 7 = 0 THEN "b" ELSE "a"]

\* page texts around the length fetch_url cuts at
LongTexts ==
    {pre \o LongBody(n) \o post :
        n \in (MaxChars - 2)..(MaxChars + 3),
        pre \in {<<>>, <<" ", "\n">>},
        post \in {<<>>, <<" ", " ", "a">>}}

FailedRequests == {Failure(c) : c \in {"ReadTimeout", "ConnectTimeout", "ConnectError"}}

ErrorResponses ==
    {Response(304, "Not Modified", <<>>), Response(404, "Not Found", <<>>),
     Response(503, "Service Unavailable", <<>>)}

\* what a request of requestUrl can end in, the pages being those of bodies
Outcomes(requestUrl, bodies) ==
    IF requestUrl \in {Http, Https}
    THEN {Failure("ConnectError")}
    ELSE FailedRequests \cup ErrorResponses
            \cup {Response(200, "OK", b) : b \in bodies}
            \cup {Response(204, "No Content", <<>>)}

-----------------------------------------------------------------------------
(* The tool fetch *)

\* an argument as the tool receives it: its Python type and its value
Arg(type, val) == [type |-> type, val |-> val]

UrlArgs ==
    {Arg("str", u) : u \in {<<>>, <<"x">>, Https \o <<"x">>, Http \o <<"x">>}}
        \cup {Arg("int", <<>>)}

NoResponse == Failure("none")

Idle ==
    /\ pc = "idle"
    /\ query = Arg("none", <<>>)
    /\ limit = Arg("none", 0)
    /\ effLimit = 0
    /\ searchReqs = <<>>
    /\ fetchReqs = <<>>
    /\ results = <<>>
    /\ tasks = <<>>
    /\ url = Arg("none", <<>>)
    /\ response = NoResponse
    /\ extracted = <<>>
    /\ cleaned = <<>>
    /\ ret = <<>>
    /\ exc = "none"

\* fetch(url), up to the request of fetch_url
FetchCall(u) ==
    /\ pc = "idle"
    /\ url' = u
    /\ IF u.type # "str"
       THEN /\ pc' = "raised"
            /\ exc' = "ValueError"
            /\ fetchReqs' = fetchReqs
       ELSE /\ pc' = "fetching"
            /\ exc' = exc
            /\ fetchReqs' = Append(fetchReqs, RequestUrl(u.val))
    /\ UNCHANGED <<query, limit, effLimit, searchReqs, results, tasks,
                   response, extracted, cleaned, ret>>

FetchBodies == Texts(MaxLen) \cup LongTexts

\* fetch(url), from the end of the request of fetch_url to its return
FetchReturn ==
    /\ pc = "fetching"
    /\ \E o \in Outcomes(fetchReqs[1], FetchBodies) :
        /\ response' = o
        /\ extracted' = IF RaisedInFetch(o) = "none" THEN o.body ELSE <<>>
        /\ cleaned' = IF RaisedInFetch(o) = "none" THEN CleanText(o.body) ELSE <<>>
        /\ ret' = FetchUrl(o).val
        /\ exc' = FetchUrl(o).raised
        /\ pc' = IF FetchUrl(o).raised = "none" THEN "done" ELSE "raised"
    /\ UNCHANGED <<query, limit, effLimit, searchReqs, fetchReqs, results,
                   tasks, url>>

FetchNext ==
    \/ \E u \in UrlArgs : FetchCall(u)
    \/ FetchReturn

SpecFetch == Idle /\ [][FetchNext]_vars

-----------------------------------------------------------------------------
(* search_duckduckgo *)

\* an element select_one() looks for in a fragment: there or not, and its get_text()
Elem(text) == [present |-> TRUE, text |-> text]
NoElem == [present |-> FALSE, text |-> <<>>]

\* the result__body fragment at place i of a results page, by kind; the texts
\* carry the place, and white space around them as in the page
Fragment(kind, i) ==
    [title   |-> IF kind = "notitle" THEN NoElem
                 ELSE IF kind = "blanktitle" THEN Elem(<<" ", "\n">>)
                 ELSE Elem(<<"\n", "t">> \o Digits(i) \o <<" ">>),
     url     |-> IF kind = "nourl" THEN NoElem
                 ELSE IF kind = "blankurl" THEN Elem(<<" ">>)
                 ELSE Elem(<<" ", "u">> \o Digits(i) \o <<"\n">>),
     snippet |-> IF kind = "nosnippet" THEN NoElem
                 ELSE Elem(<<" ", "s">> \o Digits(i))]

FragmentKinds == {"full", "nosnippet", "notitle", "nourl", "blanktitle", "blankurl"}

\* query.replace(" ", "+")
FormatQuery(q) == [i \in 1..Len(q) |-> IF q[i] = " " THEN "+" ELSE q[i]]

\* the url of the search request
SearchUrl(q) == <<"https://html.duckduckgo.com/html/", "?q=">> \o FormatQuery(q)

\* result_elements[:limit], for limit >= 0
FirstN(seq, n) == SubSeq(seq, 1, IF n < Len(seq) THEN n ELSE Len(seq))

\* the dict of one fragment that has its title and its url element
ResultDict(f) ==
    [title   |-> Strip(f.title.text),
     url     |-> Strip(f.url.text),
     snippet |-> IF f.snippet.present THEN Strip(f.snippet.text) ELSE <<>>]

\* the loop over result_elements[:limit]
RECURSIVE ExtractFrom(_)
ExtractFrom(frags) ==
    IF frags = <<>> THEN <<>>
    ELSE (IF frags[1].title.present /\ frags[1].url.present
          THEN <<ResultDict(frags[1])>> ELSE <<>>) \o ExtractFrom(Tail(frags))

ExtractResults(page, lim) == ExtractFrom(FirstN(page, lim))

\* the exception raised in the try block of search_duckduckgo, "none" if none
RaisedInSearch(o) ==
    IF o.cls # "none" THEN o.cls
    ELSE IF ~IsSuccess(o.status) THEN "HTTPStatusError"
    ELSE "none"

\* the except clauses of search_duckduckgo
SearchHandlers(cls) ==
    IF IsInstance(cls, "TimeoutException")
    THEN [raised |-> "none", val |-> <<[error |-> <<"Request timed out">>]>>]
    ELSE IF IsInstance(cls, "Exception")
    THEN [raised |-> "none", val |-> <<[error |-> <<"Search failed: ", cls>>]>>]
    ELSE [raised |-> cls, val |-> <<>>]

\* search_duckduckgo from the end of the request on
SearchDuckDuckGo(lim, o) ==
    IF RaisedInSearch(o) = "none"
    THEN [raised |-> "none", val |-> ExtractResults(o.body, lim)]
    ELSE SearchHandlers(RaisedInSearch(o))

-----------------------------------------------------------------------------
(* The arguments and the results pages of the model *)

QueryArgs ==
    {Arg("str", q) : q \in {<<>>, <<" ">>, <<" ", "\t">>, <<" ", "a", " ", "b">>}}
        \cup {Arg("int", <<>>)}

\* a bool is an int in Python: True is 1, False is 0
LimitArgs ==
    {Arg("int", n) : n \in (-1)..MaxLimitArg}
        \cup {Arg("bool", 0), Arg("bool", 1), Arg("str", 3), Arg("float", 2)}

\* a page of n fragments, all with the three elements
FullPage(n) == [i \in 1..n |-> Fragment("full", i)]

\* every page of at most n fragments
KindPages(n) ==
    UNION {{[i \in 1..k |-> Fragment(kinds[i], i)] : kinds \in [1..k -> FragmentKinds]} :
              k \in 0..n}

\* the full pages with one fragment changed
DefectPages(n) ==
    UNION {{[FullPage(k) EXCEPT ![d] = Fragment(kind, d)] :
               d \in 1..k, kind \in FragmentKinds \ {"full"}} : k \in 1..n}

SearchOutcomes(pages) ==
    FailedRequests \cup ErrorResponses \cup {Response(200, "OK", p) : p \in pages}

-----------------------------------------------------------------------------
(* The tools search_and_fetch and search *)

\* the cap on limit
LimitCap == 10

\* ArgumentError without the strip of the query
ArgumentErrorNoStrip(q, l) ==
    IF q.type # "str" \/ q.val = <<>> THEN "ValueError"
    ELSE IF l.type \notin {"int", "bool"} \/ l.val < 1 THEN "ValueError"
    ELSE "none"

\* the exception of the argument checks, "none" if the arguments pass
ArgumentError(q, l) ==
    IF q.type # "str" \/ Strip(q.val) = <<>> THEN "ValueError"
    ELSE IF l.type \notin {"int", "bool"} \/ l.val < 1 THEN "ValueError"
    ELSE "none"

\* CapLimit without the cap
CapLimitNone(n) == n

\* min(limit, 10)
CapLimit(n) == IF n < LimitCap THEN n ELSE LimitCap

\* the tool call up to the request of search_duckduckgo
EnterSearch(q, l) ==
    /\ pc = "idle"
    /\ query' = q
    /\ limit' = l
    /\ IF ArgumentError(q, l) # "none"
       THEN /\ pc' = "raised"
            /\ exc' = ArgumentError(q, l)
            /\ UNCHANGED <<effLimit, searchReqs>>
       ELSE /\ pc' = "searching"
            /\ exc' = exc
            /\ effLimit' = CapLimit(l.val)
            /\ searchReqs' = Append(searchReqs, SearchUrl(q.val))
    /\ UNCHANGED <<fetchReqs, results, tasks, url, response, extracted, cleaned, ret>>

NoResultsMessage(q) ==
    <<[message |-> <<"No results found for '">> \o q \o <<"'">>]>>

\* search(query, limit): the call
SearchCall == \E q \in QueryArgs, l \in LimitArgs : EnterSearch(q, l)

\* search(query, limit): from the end of the search request to the return
SearchReturn ==
    /\ pc = "searching"
    /\ \E o \in SearchOutcomes(KindPages(MaxPageLen) \cup {FullPage(n) : n \in 0..MaxFrags}) :
        LET found == SearchDuckDuckGo(effLimit, o)
        IN  /\ response' = o
            /\ results' = found.val
            /\ exc' = found.raised
            /\ pc' = IF found.raised # "none" THEN "raised" ELSE "done"
            /\ ret' = IF found.raised # "none" THEN <<>>
                      ELSE IF found.val = <<>> THEN NoResultsMessage(query.val)
                      ELSE found.val
    /\ UNCHANGED <<query, limit, effLimit, searchReqs, fetchReqs, tasks, url,
                   extracted, cleaned>>

SearchNext == SearchCall \/ SearchReturn

SpecSearch == Idle /\ [][SearchNext]_vars

-----------------------------------------------------------------------------
(* The tool search_and_fetch *)

\* the page behind a url: its text names the url
PageText(u) == <<" ", "\n">> \o u \o <<" ", " ", " ", "o", "k", "\n">>

\* what the request of one page fetch of a batch can end in
PageOutcomes(u) ==
    <<Response(200, "OK", PageText(u)), Failure("ReadTimeout"),
      Response(404, "Not Found", <<>>), Failure("ConnectError")>>

\* the outcomes of the i-th fetch of a batch of n: every one for a small batch,
\* one by place for a larger batch
BatchOutcomes(i, n, u) ==
    IF u \in {Http, Https} THEN Outcomes(u, {})
    ELSE IF n <= FreeBatch
    THEN Outcomes(u, {PageText(u)}) \cap {PageOutcomes(u)[k] : k \in 1..4}
    ELSE {PageOutcomes(u)[1 + (i % 4)]}

\* a fetch_url coroutine handed to asyncio.gather, its request issued
Pending(u) ==
    [url |-> u, st |-> "pending", outcome |-> NoResponse, raised |-> "none", val |-> <<>>]

\* the keys the list comprehension reads: item["url"] raises KeyError on a
\* dict without the key
MissingUrl(found) == \E i \in 1..Len(found) : "url" \notin DOMAIN found[i]

\* search_and_fetch(query, limit): the call
SearchAndFetchCall == \E q \in QueryArgs, l \in LimitArgs : EnterSearch(q, l)

\* search_and_fetch: from the end of the search request to the return, the
\* raise, or the await of asyncio.gather with every page request issued
SearchDone ==
    /\ pc = "searching"
    /\ \E o \in SearchOutcomes(DefectPages(MaxPageLen) \cup {FullPage(n) : n \in 0..MaxFrags}) :
        LET found == SearchDuckDuckGo(effLimit, o)
        IN  /\ response' = o
            /\ results' = found.val
            /\ IF found.raised # "none"
               THEN /\ pc' = "raised"
                    /\ exc' = found.raised
                    /\ UNCHANGED <<ret, tasks, fetchReqs>>
               ELSE IF found.val = <<>>
               THEN /\ pc' = "done"
                    /\ ret' = NoResultsMessage(query.val)
                    /\ UNCHANGED <<exc, tasks, fetchReqs>>
               ELSE IF MissingUrl(found.val)
               THEN /\ pc' = "raised"
                    /\ exc' = "KeyError"
                    /\ UNCHANGED <<ret, tasks, fetchReqs>>
               ELSE /\ pc' = "gathering"
                    /\ tasks' = [i \in 1..Len(found.val) |->
                                    Pending(RequestUrl(found.val[i].url))]
                    /\ fetchReqs' = [i \in 1..Len(found.val) |->
                                        RequestUrl(found.val[i].url)]
                    /\ UNCHANGED <<ret, exc>>
    /\ UNCHANGED <<query, limit, effLimit, searchReqs, url, extracted, cleaned>>

\* one fetch_url of the batch: from the end of its request to its return
FetchComplete ==
    /\ pc = "gathering"
    /\ \E i \in 1..Len(tasks) :
        /\ tasks[i].st = "pending"
        /\ \E o \in BatchOutcomes(i, Len(tasks), tasks[i].url) :
            tasks' = [tasks EXCEPT ![i] =
                        [url |-> tasks[i].url, st |-> "done", outcome |-> o,
                         raised |-> FetchUrl(o).raised, val |-> FetchUrl(o).val]]
    /\ UNCHANGED <<pc, query, limit, effLimit, searchReqs, fetchReqs, results,
                   url, response, extracted, cleaned, ret, exc>>

Failed(ts) == {i \in 1..Len(ts) : ts[i].st = "done" /\ ts[i].raised # "none"}

\* GatherReady as soon as one task has returned
GatherReadyFirst(ts) == \E i \in 1..Len(ts) : ts[i].st = "done"

\* await asyncio.gather(...) ends: every task has returned, or one has raised
GatherReady(ts) ==
    \/ \A i \in 1..Len(ts) : ts[i].st = "done"
    \/ Failed(ts) # {}

\* Merge with the summaries taken from the last to the first
MergeReversed(found, summaries) ==
    [i \in 1..(IF Len(found) < Len(summaries) THEN Len(found) ELSE Len(summaries)) |->
        [title   |-> found[i].title,
         url     |-> found[i].url,
         snippet |-> found[i].snippet,
         summary |-> summaries[Len(summaries) + 1 - i]]]

\* the loop over zip(results, summaries)
Merge(found, summaries) ==
    [i \in 1..(IF Len(found) < Len(summaries) THEN Len(found) ELSE Len(summaries)) |->
        [title   |-> found[i].title,
         url     |-> found[i].url,
         snippet |-> found[i].snippet,
         summary |-> summaries[i]]]

\* search_and_fetch: from the end of asyncio.gather to the return
Join ==
    /\ pc = "gathering"
    /\ GatherReady(tasks)
    /\ IF Failed(tasks) # {}
       THEN /\ pc' = "raised"
            /\ exc' = tasks[Min(Failed(tasks))].raised
            /\ UNCHANGED <<results, ret>>
       ELSE /\ pc' = "done"
            /\ results' = Merge(results, [i \in 1..Len(tasks) |-> tasks[i].val])
            /\ ret' = results'
            /\ exc' = exc
    /\ UNCHANGED <<query, limit, effLimit, searchReqs, fetchReqs, tasks, url,
                   response, extracted, cleaned>>

Init == Idle

Next == SearchAndFetchCall \/ SearchDone \/ FetchComplete \/ Join

Spec == Init /\ [][Next]_vars

-----------------------------------------------------------------------------
(* The claims *)

\* the tool call is over
Over == pc \in {"done", "raised"}

\* the search request of the call has ended
Searched == response # NoResponse

\* the search request of the call has ended in a timeout, a network error or a
\* status that is not 2xx
SearchFailed ==
    /\ Searched
    /\ \/ response.cls # "none"
       \/ response.status < 200
       \/ response.status > 299

\* the query is text with a character that is no white space
GoodQuery ==
    /\ query.type = "str"
    /\ \E i \in 1..Len(query.val) : query.val[i] \notin {" ", "\n", "\t"}

\* the limit is an integer of at least 1
GoodLimit == limit.type \in {"int", "bool"} /\ limit.val >= 1

\* C1: when the search step of search_and_fetch has failed, the call raises
\* nothing, issues no page request, and returns the one-element error marker
\* of search_duckduckgo.
C1_SearchFailurePassedThrough ==
    (Over /\ SearchFailed) =>
        /\ pc = "done"
        /\ exc = "none"
        /\ fetchReqs = <<>>
        /\ Len(ret) = 1
        /\ DOMAIN ret[1] = {"error"}
        /\ ret = results

\* C2: a call of search_and_fetch with an empty or whitespace-only query, or
\* with a limit that is no positive integer, raises the invalid-argument error,
\* and at no point of the call has a search or page request been issued.
C2_InvalidArgumentsRaiseBeforeAnyRequest ==
    (pc # "idle" /\ ~(GoodQuery /\ GoodLimit)) =>
        /\ pc = "raised"
        /\ exc = "ValueError"
        /\ searchReqs = <<>>
        /\ fetchReqs = <<>>

C2_Witness ==
    /\ pc = "raised"
    /\ query = Arg("str", <<" ", "\t">>)
    /\ limit = Arg("int", 3)
    /\ searchReqs = <<>>

\* C3: the search request has ended before any page request is issued, and the
\* call is over only when every page fetch it dispatched has ended.
C3_SearchThenFetchesThenReturn ==
    /\ fetchReqs # <<>> => (Searched /\ Len(searchReqs) = 1)
    /\ Len(tasks) = Len(fetchReqs)
    /\ Over => \A i \in 1..Len(tasks) : tasks[i].st = "done"

C3_Witness ==
    /\ pc = "done"
    /\ Len(tasks) >= 2
    /\ \A i \in 1..Len(tasks) : tasks[i].st = "done"

\* the text fetching the url u gives when its request ends in o
OutcomeText(u, o) ==
    IF o.cls \in {"ReadTimeout", "ConnectTimeout"}
    THEN <<"Error: Request timed out while fetching the webpage">>
    ELSE IF o.cls # "none"
    THEN <<"Error: Failed to fetch webpage - ", o.cls>>
    ELSE IF o.status = 404
    THEN <<"Error: HTTP ", "4", "0", "4", " - ", "Not Found">>
    ELSE Https \o u \o <<" ", "o", "k">>

Fetched ==
    /\ response # NoResponse
    /\ response.cls = "none"
    /\ response.status >= 200
    /\ response.status <= 299

\* C5: fetch on a text url never raises; it returns the timeout text on a
\* timeout, "Error: HTTP <code> - <reason>" on a status that is not 2xx, a
\* text beginning with "Error: Failed to fetch webpage - " on any other
\* failure, and the extracted text on success.
C5_FetchReturnsText ==
    /\ url.type = "str" => (pc # "raised" /\ exc = "none")
    /\ pc = "done" =>
        IF response.cls \in {"ReadTimeout", "ConnectTimeout"}
        THEN ret = <<"Error: Request timed out while fetching the webpage">>
        ELSE IF response.cls # "none"
        THEN ret[1] = "Error: Failed to fetch webpage - "
        ELSE IF ~Fetched
        THEN /\ Len(ret) = 6
             /\ ret[1] = "Error: HTTP "
             /\ <<ret[2], ret[3], ret[4]>> =
                    (IF response.status = 304 THEN <<"3", "0", "4">>
                     ELSE IF response.status = 404 THEN <<"4", "0", "4">>
                     ELSE <<"5", "0", "3">>)
             /\ ret[5] = " - "
             /\ ret[6] = response.reason
        ELSE /\ Len(ret) >= Len(cleaned)
             /\ \A i \in 1..Len(ret) : i <= Len(cleaned) /\ i <= 10000 => ret[i] = cleaned[i]

C5_Witness ==
    /\ pc = "done"
    /\ response.status = 404
    /\ ret = <<"Error: HTTP ", "4", "0", "4", " - ", "Not Found">>

\* C6: for a non-empty query and 1 <= limit <= 10, the records search returns
\* are at most limit, each with a non-empty title and a non-empty url.
C6_RecordsHaveTitleAndUrl ==
    (pc = "done" /\ limit.val <= 10 /\ ~SearchFailed /\ results # <<>>) =>
        /\ Len(ret) <= limit.val
        /\ \A i \in 1..Len(ret) : ret[i].title # <<>> /\ ret[i].url # <<>>

\* C7: the limit search_and_fetch hands to the search step is 10 for every
\* limit above 10 and the limit itself from 1 to 10; the call returns at most
\* 10 records and issues at most 10 page requests.
C7_LimitCappedAtTen ==
    /\ pc \in {"searching", "gathering", "done"} =>
        effLimit = (IF limit.val > 10 THEN 10 ELSE limit.val)
    /\ Len(results) <= effLimit \/ SearchFailed
    /\ Len(fetchReqs) <= 10
    /\ Len(ret) <= 10

C7_Witness ==
    /\ pc = "done"
    /\ limit.val > 10
    /\ Len(response.body) > 10
    /\ Len(ret) = 10
    /\ Len(fetchReqs) = 10

\* the fragments of a page that have a title and a url element, in their order
RECURSIVE Complete(_)
Complete(frags) ==
    IF frags = <<>> THEN <<>>
    ELSE (IF frags[1].title.present /\ frags[1].url.present THEN <<frags[1]>> ELSE <<>>)
            \o Complete(Tail(frags))

\* C8: the records of search_duckduckgo are those of the first limit fragments
\* among the fragments that have a title and a url element: a fragment
\* without one of them does not count toward limit.
C8_SkippedFragmentsDoNotCount ==
    (pc = "done" /\ ~SearchFailed) =>
        LET complete == Complete(response.body)
            n == IF Len(complete) < effLimit THEN Len(complete) ELSE effLimit
        IN  /\ Len(results) = n
            /\ \A i \in 1..Len(results) :
                  i <= n => results[i].title = Strip(complete[i].title.text)

\* C9: a cleaned text of more than 10,000 characters is returned as its first
\* 10,000 characters and the marker "... [content truncated]"; a cleaned text
\* of at most 10,000 characters is returned unchanged.
C9_TruncationLaw ==
    (pc = "done" /\ Fetched) =>
        IF Len(cleaned) > 10000
        THEN /\ Len(ret) = 10000 + Len(TruncationMarker)
             /\ SubSeq(ret, 1, 10000) = SubSeq(cleaned, 1, 10000)
             /\ SubSeq(ret, 10001, Len(ret)) =
                    <<".", ".", ".", " ", "[", "c", "o", "n", "t", "e", "n", "t",
                      " ", "t", "r", "u", "n", "c", "a", "t", "e", "d", "]">>
        ELSE ret = cleaned

C9_Witness ==
    /\ pc = "done"
    /\ Fetched
    /\ Len(cleaned) > 10000
    /\ Len(ret) = 10023

\* C10: the clean-up of fetch_url is idempotent, and the cleaned text has no
\* line break, no space at either end and no two spaces in a row.
C10_CleanTextIdempotent ==
    (pc = "done" /\ Fetched) =>
        /\ CleanText(cleaned) = cleaned
        /\ \A i \in 1..Len(cleaned) : cleaned[i] # "\n"
        /\ cleaned # <<>> => (cleaned[1] # " " /\ cleaned[Len(cleaned)] # " ")
        /\ \A i \in 1..(Len(cleaned) - 1) : ~(cleaned[i] = " " /\ cleaned[i + 1] = " ")

C10_Witness ==
    /\ pc = "done"
    /\ Fetched
    /\ extracted = <<"a", " ", " ", " ", "a">>
    /\ cleaned = <<"a", " ", "a">>

====
